---- MODULE Spec2Model ----
(***************************************************************************)
(* A model of pptx_extractor.py: the markdown rendering of a parsed        *)
(* presentation (tables, paragraphs, groups, notes, slides, document) and  *)
(* the per-document processing loop over the input/ directory.             *)
(*                                                                         *)
(* A Python str is modelled as a sequence of one-character strings, so     *)
(* that strip, replace, split and join are computed character by           *)
(* character, as Python computes them.                                     *)
(***************************************************************************)
EXTENDS Integers, Sequences, FiniteSets, TLC

VARIABLES
    pc,             \* position of the operation being run
    table,          \* extract_table_as_markdown: the table's grid (rows of cell.text)
    table_md,       \* extract_table_as_markdown: the returned string
    shape,          \* extract_text_from_shape: the argument
    text_items,     \* extract_text_from_shape: the returned list
    file_path,      \* extract_text_from_pptx: the file ([name, corrupt, slides])
    prs,            \* extract_text_from_pptx: the parsed presentation (its slides)
    text_runs,      \* extract_text_from_pptx: the fragment list
    slide_number,   \* extract_text_from_pptx: enumerate(prs.slides, start=1)
    markdown,       \* extract_text_from_pptx: the returned string
    raised,         \* extract_text_from_pptx: TRUE when an exception left the function
    keep,           \* process_pptx_files: the keep argument
    input_dir,      \* the names of the files in input/
    processed_dir,  \* the names of the files in processed/
    output_dir,     \* the files in output/: name -> content
    pptx_files,     \* process_pptx_files: the list of discovered files
    file_index,     \* process_pptx_files: position of the for loop in pptx_files
    printed,        \* the lines printed so far
    failed          \* the operations that raised so far (name and step)

coreVars == <<table, table_md, shape, text_items, file_path, prs, text_runs,
              slide_number, markdown, raised>>

procVars == <<keep, input_dir, processed_dir, output_dir, pptx_files, file_index,
              printed, failed>>

-----------------------------------------------------------------------------
(* Bounds of the model.                                                    *)

MaxRows == 2        \* rows of a table
MaxCols == 2        \* cells of a table row
MaxLevel == 2       \* paragraph.level
MaxParas == 2       \* paragraphs of a text frame
MaxChildren == 2    \* child shapes of a group
MaxShapes == 2      \* top-level shapes of a slide
MaxSlides == 2      \* slides of a presentation
MaxFiles == 2       \* files in input/ when the run starts

-----------------------------------------------------------------------------
(* Python str and list primitives.                                         *)

NL == "\n"

\* The characters str.strip() removes that the model's texts can hold.
Whitespace == {" ", "\t", "\n", "\r", "\f"}

RECURSIVE LStrip(_)
LStrip(s) ==
    IF s # <<>> /\ Head(s) \in Whitespace THEN LStrip(Tail(s)) ELSE s

RECURSIVE RStrip(_)
RStrip(s) ==
    IF s # <<>> /\ s[Len(s)] \in Whitespace
    THEN RStrip(SubSeq(s, 1, Len(s) - 1))
    ELSE s

\* str.strip()
Strip(s) == RStrip(LStrip(s))

\* str.replace('|', '\\|')
RECURSIVE EscapePipes(_)
EscapePipes(s) ==
    IF s = <<>> THEN <<>>
    ELSE (IF Head(s) = "|" THEN <<"\\", "|">> ELSE <<Head(s)>>)
         \o EscapePipes(Tail(s))

\* sep.join(items)
RECURSIVE Join(_, _)
Join(sep, items) ==
    IF items = <<>> THEN <<>>
    ELSE IF Len(items) = 1 THEN items[1]
    ELSE items[1] \o sep \o Join(sep, Tail(items))

\* s.split('\n'): always at least one piece
RECURSIVE SplitLines(_)
SplitLines(s) ==
    IF \A i \in 1..Len(s) : s[i] # NL THEN <<s>>
    ELSE LET k == CHOOSE i \in 1..Len(s) :
                      s[i] = NL /\ \A j \in 1..(i - 1) : s[j] # NL
         IN <<SubSeq(s, 1, k - 1)>> \o SplitLines(SubSeq(s, k + 1, Len(s)))

\* s * n (n <= 0 gives the empty string)
RECURSIVE Repeat(_, _)
Repeat(s, n) == IF n <= 0 THEN <<>> ELSE s \o Repeat(s, n - 1)

\* [x] * n
RepeatItem(x, n) == [i \in 1..n |-> x]

\* list concatenation of a list of lists (repeated list.extend)
RECURSIVE Flatten(_)
Flatten(lists) ==
    IF lists = <<>> THEN <<>> ELSE Head(lists) \o Flatten(Tail(lists))

\* max(len(row) for row in rows), rows non-empty
MaxLen(rows) ==
    CHOOSE n \in {Len(rows[i]) : i \in 1..Len(rows)} :
        \A i \in 1..Len(rows) : Len(rows[i]) <= n

Digit(d) == <<"0", "1", "2", "3", "4", "5", "6", "7", "8", "9">>[d + 1]

\* str(n) for n >= 0
RECURSIVE IntToStr(_)
IntToStr(n) ==
    IF n < 10 THEN <<Digit(n)>> ELSE IntToStr(n \div 10) \o <<Digit(n % 10)>>

-----------------------------------------------------------------------------
(* extract_table_as_markdown                                               *)

\* one cell of line 18: cell.text.strip().replace('|', '\\|')
CellText(text) == EscapePipes(Strip(text))

\* '| ' + ' | '.join(row) + ' |'
TableLine(row) == <<"|", " ">> \o Join(<<" ", "|", " ">>, row) \o <<" ", "|">>

Dashes == <<"-", "-", "-">>

PadRow(row, col_count) == row \o RepeatItem(<<>>, col_count - Len(row))

extract_table_as_markdown(grid) ==
    LET rows0 == [r \in 1..Len(grid) |->
                    [c \in 1..Len(grid[r]) |-> CellText(grid[r][c])]]
    IN IF rows0 = <<>> THEN <<>>
       ELSE LET col_count == MaxLen(rows0)
                rows == [r \in 1..Len(rows0) |-> PadRow(rows0[r], col_count)]
                header == TableLine(rows[1])
                separator == TableLine(RepeatItem(Dashes, col_count))
                body_rows == [r \in 1..(Len(rows) - 1) |-> TableLine(rows[r + 1])]
            IN Join(<<NL>>, <<header, separator>> \o body_rows)

-----------------------------------------------------------------------------
(* extract_text_from_shape                                                 *)

GROUP == 6

\* the indent taken from the level itself
IndentOfLevel(level) == Repeat(<<" ", " ">>, level)

\* line 53: '  ' * (level - 1)
IndentOf(level) == Repeat(<<" ", " ">>, level - 1)

\* lines 49-56: one paragraph of a text frame gives zero or one item
ParagraphItems(paragraph) ==
    LET text == Strip(paragraph.text)
    IN IF text # <<>>
       THEN IF paragraph.level > 0
            THEN <<IndentOf(paragraph.level) \o <<"-", " ">> \o text>>
            ELSE <<text>>
       ELSE <<>>

\* the children visited last to first
ChildOrderReversed(shapes) == [i \in 1..Len(shapes) |-> shapes[Len(shapes) - i + 1]]

\* the order in which line 61 visits shape.shapes
ChildOrder(shapes) == shapes

RECURSIVE extract_text_from_shape(_)
extract_text_from_shape(sh) ==
    IF sh.has_table
    THEN LET tmd == extract_table_as_markdown(sh.table)
         IN IF tmd # <<>> THEN <<tmd>> ELSE <<>>
    ELSE IF sh.has_text_frame
    THEN Flatten([i \in 1..Len(sh.paragraphs) |-> ParagraphItems(sh.paragraphs[i])])
    ELSE IF sh.shape_type = GROUP
    THEN LET subs == ChildOrder(sh.shapes)
         IN Flatten([i \in 1..Len(subs) |-> extract_text_from_shape(subs[i])])
    ELSE <<>>

-----------------------------------------------------------------------------
(* extract_notes                                                           *)

\* what a call gives back: a value (None or a str) or an exception
ReturnNone == [kind |-> "none", text |-> <<>>]

ReturnStr(text) == [kind |-> "str", text |-> text]

Raise == [kind |-> "raise", text |-> <<>>]

\* the fault not caught
NotesFaultRaises == Raise

\* lines 74-75: except Exception: pass, then line 76
NotesFault == ReturnNone

\* slide.notes is what reading the notes gives: "absent" (has_notes_slide is
\* False), "no_frame" (notes_text_frame is None), "fault" (the read raises)
\* or "text" (notes_text_frame.text)
extract_notes(slide) ==
    IF slide.notes.kind = "fault" THEN NotesFault
    ELSE IF slide.notes.kind = "text"
    THEN LET notes_text == Strip(slide.notes.text)
         IN IF notes_text # <<>> THEN ReturnStr(notes_text) ELSE ReturnNone
    ELSE ReturnNone

-----------------------------------------------------------------------------
(* extract_text_from_pptx, slide by slide                                  *)

\* shape.text of a shape with a text frame: the paragraphs joined by '\n'
ShapeText(sh) == Join(<<NL>>, [i \in 1..Len(sh.paragraphs) |-> sh.paragraphs[i].text])

\* line 86: f"# {base_name}\n"
TitleRun(base_name) == <<"#", " ">> \o base_name \o <<NL>>

\* the slides walked from the last
SlideAtReversed(slides, n) == slides[Len(slides) - n + 1]

\* line 88: the slide that enumerate(prs.slides, start=1) gives with number n
SlideAt(slides, n) == slides[n]

\* line 90: slide.shapes.title (slide.title is its index in slide.shapes, 0 for None)
HasTitle(slide) == slide.title # 0

TitleShape(slide) == slide.shapes[slide.title]

\* lines 91-94
HeadingRun(slide, n) ==
    IF HasTitle(slide) /\ Strip(ShapeText(TitleShape(slide))) # <<>>
    THEN <<"#", "#", " ">> \o Strip(ShapeText(TitleShape(slide))) \o <<NL>>
    ELSE <<"#", "#", " ", "S", "l", "i", "d", "e", " ">> \o IntToStr(n) \o <<NL>>

\* the title recognised by its text
IsTitleShapeByText(sh, title_shape) == sh.has_text_frame /\ ShapeText(sh) = ShapeText(title_shape)

\* line 98: shape.shape_id == title_shape.shape_id
IsTitleShape(sh, title_shape) == sh.shape_id = title_shape.shape_id

\* lines 96-100
BodyRuns(slide) ==
    Flatten([i \in 1..Len(slide.shapes) |->
               IF HasTitle(slide) /\ IsTitleShape(slide.shapes[i], TitleShape(slide))
               THEN <<>>
               ELSE extract_text_from_shape(slide.shapes[i])])

\* lines 105-106
NotesRun(notes) ==
    LET lines == SplitLines(notes)
        quoted == Join(<<NL>>, [i \in 1..Len(lines) |-> <<">", " ">> \o lines[i]])
    IN <<NL, "*", "*", "N", "o", "t", "e", "s", ":", "*", "*", NL>> \o quoted

-----------------------------------------------------------------------------
(* The parsed object graph python-pptx exposes, as far as the code reads   *)
(* it: has_table, has_text_frame, shape_type, shape_id, table, paragraphs   *)
(* and (for a group) shapes.                                               *)

TextShape(id, paragraphs) ==
    [shape_id |-> id, has_table |-> FALSE, has_text_frame |-> TRUE,
     shape_type |-> 17, table |-> <<>>, paragraphs |-> paragraphs, shapes |-> <<>>]

TableShape(id, grid) ==
    [shape_id |-> id, has_table |-> TRUE, has_text_frame |-> FALSE,
     shape_type |-> 19, table |-> grid, paragraphs |-> <<>>, shapes |-> <<>>]

GroupShape(id, shapes) ==
    [shape_id |-> id, has_table |-> FALSE, has_text_frame |-> FALSE,
     shape_type |-> GROUP, table |-> <<>>, paragraphs |-> <<>>, shapes |-> shapes]

\* a picture: no table, no text frame, not a group
OtherShape(id) ==
    [shape_id |-> id, has_table |-> FALSE, has_text_frame |-> FALSE,
     shape_type |-> 13, table |-> <<>>, paragraphs |-> <<>>, shapes |-> <<>>]

Para(text, level) == [text |-> text, level |-> level]

SeqsUpTo(S, n) == UNION {[1..k -> S] : k \in 0..n}

NonEmptySeqsUpTo(S, n) == UNION {[1..k -> S] : k \in 1..n}

-----------------------------------------------------------------------------
(* Inputs of the table renderer.                                           *)

CellTexts ==
    { <<>>, <<"A">>,
      <<" ", "x", "|", "y", " ">>,
      <<"p", NL, "q">> }

JaggedTable == << <<<<"A">>, <<"B">>>>, <<<<"1">>>> >>

\* one-row and one-column tables of any cells, and taller and wider tables of
\* two kinds of cell
TableSet ==
    {<<row>> : row \in NonEmptySeqsUpTo(CellTexts, MaxCols)}
    \cup {<<<<c>>, <<d>>>> : c \in CellTexts, d \in CellTexts}
    \cup SeqsUpTo(NonEmptySeqsUpTo({<<"A">>, <<" ", "x", "|", "y", " ">>}, MaxCols), MaxRows)
    \cup {JaggedTable, << <<<<"p", NL, "q">>, <<"A">>>>, <<<<"A">>>> >>}

(* Inputs of the shape extractor.                                          *)

ParaTexts == { <<>>, <<" ">>, <<"a">>, <<" ", "b", " ", "c", " ">> }

Paragraphs == [text : ParaTexts, level : 0..MaxLevel]

TextShapes == {TextShape(1, ps) : ps \in SeqsUpTo(Paragraphs, MaxParas)}

TextLeaf == TextShape(2, <<Para(<<"t">>, 0), Para(<<"u">>, 1)>>)

TableLeaf == TableShape(3, JaggedTable)

LeafShapes == {TextLeaf, TableLeaf, OtherShape(4)}

Groups1 == {GroupShape(5, cs) : cs \in SeqsUpTo({TextLeaf, TableLeaf}, MaxChildren)}

Groups2 == {GroupShape(6, cs) : cs \in SeqsUpTo(LeafShapes \cup Groups1, MaxChildren)}

Groups3 == {GroupShape(7, <<g>>) : g \in Groups2}

ShapeSet == TextShapes \cup LeafShapes \cup Groups2 \cup Groups3

NoShape == OtherShape(0)

NoFile == [name |-> <<>>, corrupt |-> FALSE, slides |-> <<>>]

EmptyDir == [name \in {} |-> <<>>]

ProcIdle ==
    /\ keep = FALSE
    /\ input_dir = {}
    /\ processed_dir = {}
    /\ output_dir = EmptyDir
    /\ pptx_files = <<>>
    /\ file_index = 0
    /\ printed = <<>>
    /\ failed = {}

CoreIdle ==
    /\ table = <<>>
    /\ table_md = <<>>
    /\ shape = NoShape
    /\ text_items = <<>>
    /\ file_path = NoFile
    /\ prs = <<>>
    /\ text_runs = <<>>
    /\ slide_number = 0
    /\ markdown = <<>>
    /\ raised = FALSE

-----------------------------------------------------------------------------
(* The table renderer applied to every grid of TableSet.                   *)

TableInit ==
    /\ ProcIdle
    /\ pc = "table_call"
    /\ table \in TableSet
    /\ table_md = <<>>
    /\ shape = NoShape
    /\ text_items = <<>>
    /\ file_path = NoFile
    /\ prs = <<>>
    /\ text_runs = <<>>
    /\ slide_number = 0
    /\ markdown = <<>>
    /\ raised = FALSE

RenderTable ==
    /\ UNCHANGED procVars
    /\ pc = "table_call"
    /\ table_md' = extract_table_as_markdown(table)
    /\ pc' = "table_done"
    /\ UNCHANGED <<table, shape, text_items, file_path, prs, text_runs,
                   slide_number, markdown, raised>>

TableNext == RenderTable

(* The shape extractor applied to every shape of ShapeSet.                 *)

ShapeInit ==
    /\ ProcIdle
    /\ pc = "shape_call"
    /\ shape \in ShapeSet
    /\ text_items = <<>>
    /\ table = <<>>
    /\ table_md = <<>>
    /\ file_path = NoFile
    /\ prs = <<>>
    /\ text_runs = <<>>
    /\ slide_number = 0
    /\ markdown = <<>>
    /\ raised = FALSE

ExtractShape ==
    /\ UNCHANGED procVars
    /\ pc = "shape_call"
    /\ text_items' = extract_text_from_shape(shape)
    /\ pc' = "shape_done"
    /\ UNCHANGED <<table, table_md, shape, file_path, prs, text_runs,
                   slide_number, markdown, raised>>

ShapeNext == ExtractShape

vars == <<pc, coreVars, procVars>>

SpecTable == TableInit /\ [][TableNext]_vars

SpecShape == ShapeInit /\ [][ShapeNext]_vars

-----------------------------------------------------------------------------
(* Inputs of extract_text_from_pptx.                                       *)

Deck == <<"D", "e", "c", "k">>

RememberX == <<"R", "e", "m", "e", "m", "b", "e", "r", " ", "X">>

ExampleShape ==
    TextShape(3, << Para(<<"I", "n", "t", "r", "o">>, 0),
                    Para(<<"P", "o", "i", "n", "t", " ", "A">>, 1),
                    Para(<<"S", "u", "b", "-", "p", "o", "i", "n", "t">>, 2) >>)

\* shapes 1 and 2 hold the same text; the last shape reuses identifier 1
SlideShapes ==
    { TextShape(1, <<Para(<<"T">>, 0)>>),
      TextShape(2, <<Para(<<"T">>, 0)>>),
      ExampleShape,
      GroupShape(4, <<TableShape(5, JaggedTable), TextShape(6, <<Para(<<"g">>, 1)>>)>>),
      TextShape(7, <<Para(<<" ">>, 0)>>),
      TextShape(1, <<Para(<<"d">>, 0)>>) }

Notes(kind, text) == [kind |-> kind, text |-> text]

NotesSet ==
    { Notes("absent", <<>>), Notes("no_frame", <<>>), Notes("fault", <<>>),
      Notes("text", <<" ", NL>>), Notes("text", RememberX),
      Notes("text", <<"x", NL, "y", " ">>) }

Slide(shapes, title, notes) == [shapes |-> shapes, title |-> title, notes |-> notes]

\* the title, when there is one, is a text shape of the slide
TitleChoices(shapes) == {0} \cup {i \in 1..Len(shapes) : shapes[i].has_text_frame}

RichSlides ==
    UNION { {Slide(shapes, t, n) : t \in TitleChoices(shapes), n \in NotesSet} :
            shapes \in SeqsUpTo(SlideShapes, MaxShapes) }

ExampleSlide == Slide(<<ExampleShape>>, 0, Notes("text", RememberX))

PlainSlides ==
    { ExampleSlide,
      Slide(<<TextShape(1, <<Para(<<"T">>, 0)>>), TextShape(2, <<Para(<<"T">>, 0)>>)>>,
            1, Notes("absent", <<>>)),
      Slide(<<>>, 0, Notes("fault", <<>>)),
      Slide(<<TableShape(5, JaggedTable)>>, 0, Notes("text", <<"x", NL, "y", " ">>)) }

File(name, corrupt, slides) == [name |-> name, corrupt |-> corrupt, slides |-> slides]

DocSet ==
    {File(Deck, FALSE, <<s>>) : s \in RichSlides}
    \cup {File(Deck, FALSE, ss) : ss \in SeqsUpTo(PlainSlides, MaxSlides)}
    \cup {File(Deck, TRUE, <<>>)}

-----------------------------------------------------------------------------
(* extract_text_from_pptx applied to every file of DocSet.                 *)

DocInit ==
    /\ ProcIdle
    /\ pc = "doc_call"
    /\ file_path \in DocSet
    /\ prs = <<>>
    /\ text_runs = <<>>
    /\ slide_number = 0
    /\ markdown = <<>>
    /\ raised = FALSE
    /\ table = <<>>
    /\ table_md = <<>>
    /\ shape = NoShape
    /\ text_items = <<>>

\* line 81 raises: the file cannot be parsed
ParseFails ==
    /\ UNCHANGED procVars
    /\ pc = "doc_call"
    /\ file_path.corrupt
    /\ raised' = TRUE
    /\ pc' = "doc_raised"
    /\ UNCHANGED <<table, table_md, shape, text_items, file_path, prs, text_runs,
                   slide_number, markdown>>

\* lines 81-86
Parse ==
    /\ UNCHANGED procVars
    /\ pc = "doc_call"
    /\ ~file_path.corrupt
    /\ prs' = file_path.slides
    /\ text_runs' = <<TitleRun(file_path.name)>>
    /\ slide_number' = 1
    /\ pc' = "slide_heading"
    /\ UNCHANGED <<table, table_md, shape, text_items, file_path, markdown, raised>>

\* lines 88-94
SlideHeading ==
    /\ UNCHANGED procVars
    /\ pc = "slide_heading"
    /\ slide_number <= Len(prs)
    /\ text_runs' = Append(text_runs, HeadingRun(SlideAt(prs, slide_number), slide_number))
    /\ pc' = "slide_body"
    /\ UNCHANGED <<table, table_md, shape, text_items, file_path, prs,
                   slide_number, markdown, raised>>

\* lines 96-100
SlideBody ==
    /\ UNCHANGED procVars
    /\ pc = "slide_body"
    /\ text_runs' = text_runs \o BodyRuns(SlideAt(prs, slide_number))
    /\ pc' = "slide_notes"
    /\ UNCHANGED <<table, table_md, shape, text_items, file_path, prs,
                   slide_number, markdown, raised>>

\* lines 103-106, and back to line 88; an exception leaves the function
SlideNotes ==
    /\ UNCHANGED procVars
    /\ pc = "slide_notes"
    /\ LET notes == extract_notes(SlideAt(prs, slide_number))
       IN IF notes.kind = "raise"
          THEN /\ raised' = TRUE
               /\ pc' = "doc_raised"
               /\ UNCHANGED <<text_runs, slide_number>>
          ELSE /\ text_runs' = IF notes.kind = "str" /\ notes.text # <<>>
                                 THEN Append(text_runs, NotesRun(notes.text))
                                 ELSE text_runs
               /\ slide_number' = slide_number + 1
               /\ pc' = "slide_heading"
               /\ UNCHANGED raised
    /\ UNCHANGED <<table, table_md, shape, text_items, file_path, prs, markdown>>

\* line 108
JoinRuns ==
    /\ UNCHANGED procVars
    /\ pc = "slide_heading"
    /\ slide_number > Len(prs)
    /\ markdown' = Join(<<NL, NL>>, text_runs)
    /\ pc' = "doc_done"
    /\ UNCHANGED <<table, table_md, shape, text_items, file_path, prs, text_runs,
                   slide_number, raised>>

DocNext == ParseFails \/ Parse \/ SlideHeading \/ SlideBody \/ SlideNotes \/ JoinRuns

SpecDoc == DocInit /\ [][DocNext]_vars

-----------------------------------------------------------------------------
(* process_pptx_files                                                      *)

\* the file names the model puts in input/
A_pptx == <<"a", ".", "p", "p", "t", "x">>

A_PPTX == <<"a", ".", "P", "P", "T", "X">>

B_pptx == <<"b", ".", "p", "p", "t", "x">>

Temp_pptx == <<"~", "$", "a", ".", "p", "p", "t", "x">>

A_txt == <<"a", ".", "t", "x", "t">>

FileNames == {A_pptx, A_PPTX, B_pptx, Temp_pptx, A_txt}

\* line 257: the name matches '*.[Pp][Pp][Tt][Xx]'
MatchesGlob(name) ==
    LET n == Len(name)
    IN /\ n >= 5
       /\ name[n - 4] = "."
       /\ name[n - 3] \in {"P", "p"}
       /\ name[n - 2] \in {"P", "p"}
       /\ name[n - 1] \in {"T", "t"}
       /\ name[n] \in {"X", "x"}

\* line 260: f.name.startswith('~$')
IsTemporary(name) == Len(name) >= 2 /\ name[1] = "~" /\ name[2] = "$"

\* Path.stem: the name without its last suffix
Stem(name) ==
    LET dots == {i \in 2..(Len(name) - 1) : name[i] = "."}
    IN IF dots = {} THEN name
       ELSE LET last == CHOOSE i \in dots : \A j \in dots : j <= i
            IN SubSeq(name, 1, last - 1)

\* line 277: f"{base_name}.md" in output/
OutputName(name) == Stem(name) \o <<".", "m", "d">>

\* lines 257-260: the files discovered, in the order the directory gives them
Discovered(dir) == {f \in dir : MatchesGlob(f) /\ ~IsTemporary(f)}

Orders(S) ==
    {q \in [1..Cardinality(S) -> S] :
        \A i, j \in 1..Cardinality(S) : i # j => q[i] # q[j]}

\* what a written output file holds: whose markdown, and whether all of it
Content(name, complete) == [of |-> name, complete |-> complete]

WriteFile(dir, path, content) ==
    [p \in DOMAIN dir \cup {path} |-> IF p = path THEN content ELSE dir[p]]

Line(kind, name, detail) == [kind |-> kind, name |-> name, detail |-> detail]

Prints(line) == printed' = Append(printed, line)

\* the loop abandoned at the first exception
NextAfterErrorAbort(i, n) == n + 1

\* lines 268-293: the try is inside the for loop, which goes on with the next file
NextAfterError(i, n) == i + 1

\* the original always moved
MovesOriginalAlways(k) == TRUE

\* line 285: if keep ... else move
MovesOriginal(k) == ~k

\* lines 292-293: the exception of a step is caught and printed
Except(name, step) ==
    /\ Prints(Line("ERROR", name, step))
    /\ failed' = failed \cup {[name |-> name, step |-> step]}
    /\ file_index' = NextAfterError(file_index, Len(pptx_files))
    /\ pc' = "loop"

CurrentFile == pptx_files[file_index]

ProcInit ==
    /\ pc = "proc_call"
    /\ keep \in BOOLEAN
    /\ input_dir \in {d \in SUBSET FileNames : Cardinality(d) <= MaxFiles}
    /\ processed_dir = {}
    /\ output_dir = EmptyDir
    /\ pptx_files = <<>>
    /\ file_index = 0
    /\ printed = <<>>
    /\ failed = {}
    /\ CoreIdle

\* lines 262-264
DiscoverNone ==
    /\ pc = "proc_call"
    /\ Discovered(input_dir) = {}
    /\ Prints(Line("No PPTX files found", <<>>, <<>>))
    /\ pc' = "proc_return"
    /\ UNCHANGED <<keep, input_dir, processed_dir, output_dir, pptx_files,
                   file_index, failed>>
    /\ UNCHANGED coreVars

\* lines 257-266
Discover ==
    /\ pc = "proc_call"
    /\ Discovered(input_dir) # {}
    /\ pptx_files' \in Orders(Discovered(input_dir))
    /\ Prints(Line("Found", <<>>, IntToStr(Cardinality(Discovered(input_dir)))))
    /\ file_index' = 1
    /\ pc' = "loop"
    /\ UNCHANGED <<keep, input_dir, processed_dir, output_dir, failed>>
    /\ UNCHANGED coreVars

\* lines 268-270
BeginFile ==
    /\ pc = "loop"
    /\ file_index <= Len(pptx_files)
    /\ Prints(Line("Processing", CurrentFile, <<>>))
    /\ pc' = "extract"
    /\ UNCHANGED <<keep, input_dir, processed_dir, output_dir, pptx_files,
                   file_index, failed>>
    /\ UNCHANGED coreVars

\* line 273 returns
ExtractOk ==
    /\ pc = "extract"
    /\ pc' = "write"
    /\ UNCHANGED procVars
    /\ UNCHANGED coreVars

\* line 273 raises (the file does not parse, or rendering fails)
ExtractFails ==
    /\ pc = "extract"
    /\ \E step \in {"parse", "render"} : Except(CurrentFile, step)
    /\ UNCHANGED <<keep, input_dir, processed_dir, output_dir, pptx_files>>
    /\ UNCHANGED coreVars

\* lines 276-282
WriteOk ==
    /\ pc = "write"
    /\ output_dir' = WriteFile(output_dir, OutputName(CurrentFile),
                               Content(CurrentFile, TRUE))
    /\ Prints(Line("-> output", CurrentFile, OutputName(CurrentFile)))
    /\ pc' = "move"
    /\ UNCHANGED <<keep, input_dir, processed_dir, pptx_files, file_index, failed>>
    /\ UNCHANGED coreVars

\* lines 279-280 raise: open fails (nothing written) or write fails after
\* open truncated the file (part of the text written)
WriteFails ==
    /\ pc = "write"
    /\ \/ UNCHANGED output_dir
       \/ output_dir' = WriteFile(output_dir, OutputName(CurrentFile),
                                  Content(CurrentFile, FALSE))
    /\ Except(CurrentFile, "write")
    /\ UNCHANGED <<keep, input_dir, processed_dir, pptx_files>>
    /\ UNCHANGED coreVars

\* lines 285-286
KeepOriginal ==
    /\ pc = "move"
    /\ ~MovesOriginal(keep)
    /\ Prints(Line("original kept", CurrentFile, <<>>))
    /\ file_index' = file_index + 1
    /\ pc' = "loop"
    /\ UNCHANGED <<keep, input_dir, processed_dir, output_dir, pptx_files, failed>>
    /\ UNCHANGED coreVars

\* lines 288-290
MoveOk ==
    /\ pc = "move"
    /\ MovesOriginal(keep)
    /\ input_dir' = input_dir \ {CurrentFile}
    /\ processed_dir' = processed_dir \cup {CurrentFile}
    /\ Prints(Line("moved", CurrentFile, <<>>))
    /\ file_index' = file_index + 1
    /\ pc' = "loop"
    /\ UNCHANGED <<keep, output_dir, pptx_files, failed>>
    /\ UNCHANGED coreVars

\* line 289 raises: nothing moved, or (a copy across file systems whose
\* source could not be removed) the file is in both directories
MoveFails ==
    /\ pc = "move"
    /\ MovesOriginal(keep)
    /\ \/ UNCHANGED processed_dir
       \/ processed_dir' = processed_dir \cup {CurrentFile}
    /\ Except(CurrentFile, "move")
    /\ UNCHANGED <<keep, input_dir, output_dir, pptx_files>>
    /\ UNCHANGED coreVars

\* line 295
Finish ==
    /\ pc = "loop"
    /\ file_index > Len(pptx_files)
    /\ Prints(Line("Done.", <<>>, <<>>))
    /\ pc' = "proc_done"
    /\ UNCHANGED <<keep, input_dir, processed_dir, output_dir, pptx_files,
                   file_index, failed>>
    /\ UNCHANGED coreVars

ProcNext ==
    \/ DiscoverNone
    \/ Discover
    \/ BeginFile
    \/ ExtractOk
    \/ ExtractFails
    \/ WriteOk
    \/ WriteFails
    \/ KeepOriginal
    \/ MoveOk
    \/ MoveFails
    \/ Finish

\* the code runs on: a single thread that takes its next step
SpecProc == ProcInit /\ [][ProcNext]_vars /\ WF_vars(ProcNext)

-----------------------------------------------------------------------------
(* Claims about the table renderer.                                        *)

\* the '|' of a line that no backslash precedes
UnescapedPipes(line) ==
    {i \in 1..Len(line) : line[i] = "|" /\ (i = 1 \/ line[i - 1] # "\\")}

\* the cells of a rendered line: one between each two delimiters
CellCount(line) == Cardinality(UnescapedPipes(line)) - 1

ColCount(grid) ==
    CHOOSE n \in 0..MaxCols + 1 :
        /\ \E r \in 1..Len(grid) : Len(grid[r]) = n
        /\ \A r \in 1..Len(grid) : Len(grid[r]) <= n

\* C4: for every grid with at least one row, the rendered table has
\* rowCount + 1 lines and every line, the separator included, has exactly
\* colCount cells delimited by unescaped '|', colCount being the longest row.
C4_TableShape ==
    (pc = "table_done" /\ table # <<>>) =>
        LET lines == SplitLines(table_md)
        IN /\ Len(lines) = Len(table) + 1
           /\ \A i \in 1..Len(lines) : CellCount(lines[i]) = ColCount(table)

-----------------------------------------------------------------------------
(* Claims about the shape extractor.                                       *)

IsGroup(sh) == ~sh.has_table /\ ~sh.has_text_frame /\ sh.shape_type = GROUP

\* the paths (child indices from the root) to the descendants that are not groups
RECURSIVE LeafPaths(_)
LeafPaths(sh) ==
    IF IsGroup(sh)
    THEN UNION {{<<i>> \o p : p \in LeafPaths(sh.shapes[i])} : i \in 1..Len(sh.shapes)}
    ELSE {<<>>}

RECURSIVE ShapeAt(_, _)
ShapeAt(sh, p) == IF p = <<>> THEN sh ELSE ShapeAt(sh.shapes[Head(p)], Tail(p))

\* document order: p comes before q when it turns left first
Before(p, q) ==
    \E k \in 1..Len(p) :
        /\ k <= Len(q)
        /\ \A j \in 1..(k - 1) : p[j] = q[j]
        /\ p[k] < q[k]

RECURSIVE InDocumentOrder(_)
InDocumentOrder(paths) ==
    IF paths = {} THEN <<>>
    ELSE LET first == CHOOSE p \in paths : \A q \in paths \ {p} : Before(p, q)
         IN <<first>> \o InDocumentOrder(paths \ {first})

\* C5: a group shape's fragments are the fragments of its descendant
\* text, table and other shapes in document order (depth-first, pre-order,
\* left to right), none dropped, duplicated or reordered.
C5_GroupDocumentOrder ==
    (pc = "shape_done" /\ IsGroup(shape)) =>
        LET order == InDocumentOrder(LeafPaths(shape))
        IN text_items =
             Flatten([k \in 1..Len(order) |->
                        extract_text_from_shape(ShapeAt(shape, order[k]))])

C5_Witness ==
    /\ pc = "shape_done"
    /\ IsGroup(shape)
    /\ Len(shape.shapes) = 2
    /\ IsGroup(shape.shapes[1])
    /\ Len(shape.shapes[1].shapes) = 2
    /\ shape.shapes[1].shapes[1].has_table
    /\ shape.shapes[1].shapes[2].has_text_frame
    /\ shape.shapes[2].has_text_frame
    /\ Len(text_items) = 5

NonBlank(paragraph) == Strip(paragraph.text) # <<>>

Spaces(n) == [i \in 1..n |-> " "]

\* C7: every paragraph with non-empty trimmed text gives one line: the text
\* alone at level 0, and 2*(L-1) spaces, '- ' and the text at level L >= 1.
C7_ParagraphLine ==
    (pc = "shape_done" /\ shape.has_text_frame /\ ~shape.has_table) =>
        LET kept == SelectSeq(shape.paragraphs, NonBlank)
        IN /\ Len(text_items) = Len(kept)
           /\ \A k \in 1..Len(kept) :
                LET L == kept[k].level
                    text == Strip(kept[k].text)
                IN IF L = 0
                   THEN text_items[k] = text
                   ELSE text_items[k] = Spaces(2 * (L - 1)) \o <<"-", " ">> \o text

C7_Witness ==
    /\ pc = "shape_done"
    /\ shape.has_text_frame
    /\ Len(shape.paragraphs) = 2
    /\ shape.paragraphs[1].level = 0
    /\ shape.paragraphs[2].level = 2
    /\ text_items = << <<"a">>, <<" ", " ", "-", " ", "b", " ", "c">> >>

-----------------------------------------------------------------------------
(* Claims about extract_text_from_pptx.                                    *)

\* C1: adjacent fragments of the returned string are separated by exactly
\* one empty line, never two or more: no three newlines in a row.
C1_ExactlyOneEmptyLine ==
    pc = "doc_done" =>
        \A i \in 1..(Len(markdown) - 2) :
            ~(markdown[i] = NL /\ markdown[i + 1] = NL /\ markdown[i + 2] = NL)

\* C3: on a slide with a title shape, the body step appends exactly the
\* fragments of the top-level shapes whose identifier differs from the title
\* shape's, in shape order: the title shape gives nothing, a shape with
\* another identifier and the same text is rendered.
C3_BodySkipsTitleById ==
    [][(pc = "slide_body" /\ HasTitle(SlideAt(prs, slide_number))) =>
          LET slide == SlideAt(prs, slide_number)
              Differs(sh) == sh.shape_id # TitleShape(slide).shape_id
              others == SelectSeq(slide.shapes, Differs)
          IN text_runs' =
               text_runs \o Flatten([i \in 1..Len(others) |->
                                       extract_text_from_shape(others[i])])]_vars

\* a titled slide whose second shape repeats the title's text under another
\* identifier: the body holds that text once
C3_Witness ==
    /\ pc = "slide_notes"
    /\ Len(prs) = 1
    /\ prs[1].title = 1
    /\ Len(prs[1].shapes) = 2
    /\ prs[1].shapes[1].shape_id = 1
    /\ prs[1].shapes[2].shape_id = 2
    /\ ShapeText(prs[1].shapes[1]) = ShapeText(prs[1].shapes[2])
    /\ text_runs = <<TitleRun(Deck), <<"#", "#", " ", "T", NL>>, <<"T">>>>

ExpectedNotes(slide) ==
    IF slide.notes.kind = "text" /\ Strip(slide.notes.text) # <<>>
    THEN <<NotesRun(Strip(slide.notes.text))>>
    ELSE <<>>

ExpectedSlideRuns(slides, k) ==
    <<HeadingRun(slides[k], k)>> \o BodyRuns(slides[k]) \o ExpectedNotes(slides[k])

ExpectedRuns(file) ==
    <<TitleRun(file.name)>>
    \o Flatten([k \in 1..Len(file.slides) |-> ExpectedSlideRuns(file.slides, k)])

IsPrefix(a, b) == Len(a) <= Len(b) /\ a = SubSeq(b, 1, Len(a))

\* C6: the fragment list is the document title, then for each slide in
\* input order its heading, its body fragments in shape order and its notes
\* block last; while the slides are rendered the list is a prefix of that.
C6_FragmentOrder ==
    /\ pc \in {"slide_heading", "slide_body", "slide_notes"} =>
           IsPrefix(text_runs, ExpectedRuns(file_path))
    /\ pc = "doc_done" => text_runs = ExpectedRuns(file_path)

C6_Witness ==
    /\ pc = "doc_done"
    /\ Len(file_path.slides) = 2
    /\ file_path.slides[1] = ExampleSlide
    /\ file_path.slides[2].title = 1
    /\ Len(text_runs) = 8
    /\ text_runs[6] = NotesRun(RememberX)
    /\ text_runs[7] = <<"#", "#", " ", "T", NL>>

WithoutFaults(file) ==
    [file EXCEPT !.slides =
        [k \in 1..Len(file.slides) |->
            IF file.slides[k].notes.kind = "fault"
            THEN [file.slides[k] EXCEPT !.notes = Notes("absent", <<>>)]
            ELSE file.slides[k]]]

HasNotesFault(file) ==
    \E k \in 1..Len(file.slides) : file.slides[k].notes.kind = "fault"

\* C8: a fault while reading a slide's notes is suppressed: the document
\* still renders (no exception leaves the function) and the result is that
\* of the same document with the faulting notes absent.
C8_NotesFaultSuppressed ==
    (~file_path.corrupt /\ HasNotesFault(file_path)) =>
        /\ ~raised
        /\ pc # "doc_raised"
        /\ pc = "doc_done" =>
               markdown = Join(<<NL, NL>>, ExpectedRuns(WithoutFaults(file_path)))

C8_Witness ==
    /\ pc = "doc_done"
    /\ ~raised
    /\ Len(file_path.slides) = 2
    /\ file_path.slides[1].notes.kind = "fault"
    /\ file_path.slides[2] = ExampleSlide
    /\ Len(text_runs) = 7

-----------------------------------------------------------------------------
(* Claims about process_pptx_files.                                        *)

\* how many printed lines of a kind name a file
Count(kind, name) ==
    Cardinality({i \in 1..Len(printed) : printed[i].kind = kind /\ printed[i].name = name})

Reported(name, step) ==
    \E i \in 1..Len(printed) : printed[i] = Line("ERROR", name, step)

\* the file's extraction and write both went through
NoOutputFailure(name) ==
    \A x \in failed : x.name = name => x.step = "move"

ProcFinished ==
    /\ pc = "proc_done"
    /\ printed[Len(printed)].kind = "Done."
    /\ \A i \in 1..Len(pptx_files) : Count("Processing", pptx_files[i]) = 1
    /\ \A x \in failed : Reported(x.name, x.step)
    /\ \A i \in 1..Len(pptx_files) :
          NoOutputFailure(pptx_files[i]) => Count("-> output", pptx_files[i]) = 1

\* C2: whatever files are discovered and whichever of them fail at whichever
\* step, no file is attempted twice and the loop reaches 'Done' with every
\* discovered file attempted exactly once, every failure reported, and the
\* output written of every file whose own extraction and write did not fail.
C2_FailuresIsolated ==
    /\ [](\A f \in FileNames : Count("Processing", f) <= 1)
    /\ (pc = "loop") ~> ProcFinished

C2_Witness ==
    /\ pc = "proc_done"
    /\ Len(pptx_files) = 2
    /\ \E x \in failed : x.name = pptx_files[1] /\ x.step = "parse"
    /\ Count("-> output", pptx_files[2]) = 1
    /\ OutputName(pptx_files[2]) \in DOMAIN output_dir
    /\ output_dir[OutputName(pptx_files[2])] = Content(pptx_files[2], TRUE)

\* C9: one output file per input document: the markdown of a document
\* whose write completed is not overwritten by another document's.
C9_OneOutputPerDocument ==
    \A i \in 1..Len(pptx_files) :
        Count("-> output", pptx_files[i]) = 1 =>
            /\ OutputName(pptx_files[i]) \in DOMAIN output_dir
            /\ output_dir[OutputName(pptx_files[i])].of = pptx_files[i]

\* C10: a file is in processed/ only if keep is false and its output was
\* written before; a file whose parse, render or write failed is in input/
\* when the run ends; with keep no discovered file leaves input/.
C10_MoveOnlyAfterWrite ==
    /\ \A f \in processed_dir : ~keep /\ Count("-> output", f) = 1
    /\ pc = "proc_done" =>
           \A x \in failed : x.step \in {"parse", "render", "write"} => x.name \in input_dir
    /\ keep => /\ processed_dir = {}
               /\ \A i \in 1..Len(pptx_files) : pptx_files[i] \in input_dir

C10_Witness ==
    /\ pc = "proc_done"
    /\ ~keep
    /\ Len(pptx_files) = 2
    /\ pptx_files[1] \in processed_dir
    /\ pptx_files[1] \notin input_dir
    /\ \E x \in failed : x.name = pptx_files[2] /\ x.step = "write"
    /\ pptx_files[2] \in input_dir
    /\ pptx_files[2] \notin processed_dir

====
